---- MODULE Spec2Model ----
(***************************************************************************)
(* snafu-virtstack: virtual stack traces for SNAFU errors.                 *)
(*                                                                         *)
(*   virtstack/src/lib.rs        StackFrame, StackFrame::new, Display      *)
(*   virtstack_macro/src/lib.rs  #[stack_trace_debug]: the generated       *)
(*                               virtual_stack() and Debug::fmt()          *)
(*                                                                         *)
(* Three specifications over one set of variables:                         *)
(*   Spec       an error value and its source chain; virtual_stack() and   *)
(*              the generated Debug::fmt() run on it step by step          *)
(*   SpecFrame  StackFrame::new and Display for StackFrame                 *)
(*   SpecMacro  the expansion of #[stack_trace_debug] on an item           *)
(***************************************************************************)
EXTENDS Integers, Sequences, FiniteSets, TLC

VARIABLES
    errors,         \* the error value (index 1 = self) and the errors its source() chain reaches
    pc,             \* position: "idle", "walk", "done", "fmt", "fmt_done", "fmt_err"
    mode,           \* who called virtual_stack: "user" code or the generated "debug" fmt
    caller,         \* std::panic::Location::caller() of the running virtual_stack call
    stack,          \* `stack` of virtual_stack: Vec<StackFrame>
    current_error,  \* `current_error` of virtual_stack
    held,           \* the Vec the user code got from its previous virtual_stack call
    out,            \* the text written to the Formatter `f` of Debug::fmt
    idx,            \* `i` of stack.iter().enumerate() in Debug::fmt
    made,           \* SpecFrame: the StackFrame built by StackFrame::new (0 or 1 of them)
    shown,          \* SpecFrame: the text Display wrote for it
    given,          \* SpecFrame: the arguments of that StackFrame::new call
    item,           \* SpecMacro: the item the attribute is applied to
    tokens          \* SpecMacro: the TokenStream the attribute returned

vars == <<errors, pc, mode, caller, stack, current_error, held, out, idx,
          made, shown, given, item, tokens>>

-----------------------------------------------------------------------------
(* Bounds of the model *)

\* the largest number of distinct errors in a source chain
NumErrors == 3

\* the frame count the specification's safeguard would stop at; the code has
\* no such constant, and the walk of the model is cut off two frames later
MaxFrameCount == 4

WalkCap == MaxFrameCount + 2

-----------------------------------------------------------------------------
(* Data *)

Messages == {"outer failed", "inner cause"}

Loc(file, line, column) == [file |-> file, line |-> line, column |-> column]

\* where the errors of the chain were propagated (.context(..)? in user code)
PropagationSites == {Loc("src/main.rs", 15, 23), Loc("src/main.rs", 16, 10)}

\* where user code calls error.virtual_stack()
CallSites == {Loc("src/main.rs", 16, 10), Loc("src/x.rs", 10, 5)}

\* the location of the call self.virtual_stack() inside the generated fmt
\* (fmt is not #[track_caller], so the caller is the generated code itself)
DebugCallSite == Loc("src/error.rs", 7, 1)

\* an item without generics, and no item at all
NoGenerics == [impl_generics |-> "", ty_generics |-> "", where_clause |-> ""]

NoItem == [kind |-> "none", ident |-> "", generics |-> NoGenerics]

\* Option<&dyn Error>::None
None == 0

\* the error virtual_stack / fmt is called on
Self == 1

\* Every chain of n errors: link i's source() is link i+1, and the last
\* link's source() is None or, for a cyclic chain, any link of the chain.
\* `site` is where the program propagated the error; no code reads it.
ChainsOfLen(n) ==
    { [k \in 1..n |-> [msg    |-> m[k],
                       source |-> IF k < n THEN k + 1 ELSE b,
                       site   |-> s[k]]] :
        m \in [1..n -> Messages], s \in [1..n -> PropagationSites], b \in 0..n }

Chains == UNION { ChainsOfLen(n) : n \in 1..NumErrors }

\* Display of an error: self.to_string()
to_string(e) == errors[e].msg

\* std::error::Error::source()
source(e) == errors[e].source

-----------------------------------------------------------------------------
(* virtstack/src/lib.rs: StackFrame *)

StackFrame_new(location, message) == [location |-> location, message |-> message]

Digit(d) ==
    CASE d = 0 -> "0" [] d = 1 -> "1" [] d = 2 -> "2" [] d = 3 -> "3"
      [] d = 4 -> "4" [] d = 5 -> "5" [] d = 6 -> "6" [] d = 7 -> "7"
      [] d = 8 -> "8" [] d = 9 -> "9"

\* Display of an unsigned integer: decimal, no padding, no sign
RECURSIVE Dec(_)
Dec(n) == IF n < 10 THEN Digit(n) ELSE Dec(n \div 10) \o Digit(n % 10)

\* a plausible slip: line and column swapped
StackFrame_fmt_swapped(frame) ==
    frame.message \o " at " \o frame.location.file
        \o ":" \o Dec(frame.location.column) \o ":" \o Dec(frame.location.line)

\* impl Display for StackFrame: "{} at {}:{}:{}"
StackFrame_fmt(frame) ==
    frame.message \o " at " \o frame.location.file
        \o ":" \o Dec(frame.location.line) \o ":" \o Dec(frame.location.column)

-----------------------------------------------------------------------------
(* virtstack_macro/src/lib.rs: the generated virtual_stack *)

\* a plausible slip: the Vec starts empty
FirstFrames_empty(location) == << >>

\* a plausible slip: the Vec is kept across calls
FirstFrames_cached(location) ==
    held \o << StackFrame_new(location, to_string(Self)) >>

\* let mut stack = vec![StackFrame::new(Location::caller(), self.to_string())];
FirstFrames(location) == << StackFrame_new(location, to_string(Self)) >>

\* a plausible slip: the frame is built from current_error, not from source
SourceFrame_current(src) == StackFrame_new(caller, to_string(current_error))

\* a plausible slip: the frame takes the place the source was propagated at
SourceFrame_site(src) == StackFrame_new(errors[src].site, to_string(src))

\* StackFrame::new(Location::caller(), source.to_string())
SourceFrame(src) == StackFrame_new(caller, to_string(src))

\* entry of virtual_stack, called by user code at `location`
Call(location) ==
    /\ pc = "idle"
    /\ pc' = "walk"
    /\ mode' = "user"
    /\ caller' = location
    /\ stack' = FirstFrames(location)
    /\ current_error' = Self
    /\ UNCHANGED <<errors, held, out, idx, made, shown, given, item, tokens>>

\* one turn of `while let Some(source) = current_error.source()`
WalkStep ==
    /\ pc = "walk"
    /\ source(current_error) # None
    /\ Len(stack) < WalkCap
    /\ stack' = Append(stack, SourceFrame(source(current_error)))
    /\ current_error' = source(current_error)
    /\ UNCHANGED <<errors, pc, mode, caller, held, out, idx, made, shown, given, item, tokens>>

\* source() is None: the loop ends and virtual_stack returns `stack`
WalkReturn ==
    /\ pc = "walk"
    /\ source(current_error) = None
    /\ pc' = IF mode = "debug" THEN "fmt" ELSE "done"
    /\ idx' = 0
    /\ UNCHANGED <<errors, mode, caller, stack, current_error, held, out, made, shown, given, item, tokens>>

\* user code keeps the returned Vec and goes on
Keep ==
    /\ pc = "done"
    /\ pc' = "idle"
    /\ held' = stack
    /\ stack' = << >>
    /\ UNCHANGED <<errors, mode, caller, current_error, out, idx, made, shown, given, item, tokens>>

-----------------------------------------------------------------------------
(* virtstack_macro/src/lib.rs: the generated Debug::fmt *)

\* writeln!(f, ...): the text, then a line break
writeln(buf, text) == buf \o text \o "\n"

\* a plausible slip: frames numbered from one
WriteFrameLine_fromOne(buf, i, frame) ==
    writeln(buf, "  " \o Dec(i + 1) \o ": " \o StackFrame_fmt(frame))

\* writeln!(f, "  {}: {}", i, frame)
WriteFrameLine(buf, i, frame) ==
    writeln(buf, "  " \o Dec(i) \o ": " \o StackFrame_fmt(frame))

\* writeln!(f, "Error: {}", self)
WriteErrorLine(buf) == writeln(buf, "Error: " \o to_string(Self))

\* writeln!(f, "Virtual Stack Trace:")
WriteTitleLine(buf) == writeln(buf, "Virtual Stack Trace:")

\* fmt up to and into `let stack = self.virtual_stack()`: both header lines
\* are written, then virtual_stack starts with the generated code as caller
DebugBegin ==
    /\ pc = "idle"
    /\ out' = WriteTitleLine(WriteErrorLine(""))
    /\ pc' = "walk"
    /\ mode' = "debug"
    /\ caller' = DebugCallSite
    /\ stack' = FirstFrames(DebugCallSite)
    /\ current_error' = Self
    /\ UNCHANGED <<errors, held, idx, made, shown, given, item, tokens>>

\* the Formatter refuses one of the two header writes: `?` returns the Err
\* after `written` of them went through
DebugBeginErr(written) ==
    /\ pc = "idle"
    /\ out' = IF written = 0 THEN "" ELSE WriteErrorLine("")
    /\ pc' = "fmt_err"
    /\ mode' = "debug"
    /\ UNCHANGED <<errors, caller, stack, current_error, held, idx, made, shown, given, item, tokens>>

\* one turn of `for (i, frame) in stack.iter().enumerate()`
FmtLine ==
    /\ pc = "fmt"
    /\ idx < Len(stack)
    /\ out' = WriteFrameLine(out, idx, stack[idx + 1])
    /\ idx' = idx + 1
    /\ UNCHANGED <<errors, pc, mode, caller, stack, current_error, held, made, shown, given, item, tokens>>

\* the Formatter refuses the frame line: `?` returns the Err
FmtLineErr ==
    /\ pc = "fmt"
    /\ idx < Len(stack)
    /\ pc' = "fmt_err"
    /\ UNCHANGED <<errors, mode, caller, stack, current_error, held, out, idx, made, shown, given, item, tokens>>

\* the iterator is exhausted: Ok(())
FmtOk ==
    /\ pc = "fmt"
    /\ idx = Len(stack)
    /\ pc' = "fmt_done"
    /\ UNCHANGED <<errors, mode, caller, stack, current_error, held, out, idx, made, shown, given, item, tokens>>

\* fmt has returned; its `stack` is dropped and the text is consumed
FmtLeave ==
    /\ pc \in {"fmt_done", "fmt_err"}
    /\ pc' = "idle"
    /\ stack' = << >>
    /\ out' = ""
    /\ UNCHANGED <<errors, mode, caller, current_error, held, idx, made, shown, given, item, tokens>>

-----------------------------------------------------------------------------
(* Spec: an error value, virtual_stack and Debug::fmt *)

Init ==
    /\ errors \in Chains
    /\ pc = "idle"
    /\ mode = "user"
    /\ caller = DebugCallSite
    /\ stack = << >>
    /\ current_error = Self
    /\ held = << >>
    /\ out = ""
    /\ idx = 0
    /\ made = << >>
    /\ shown = ""
    /\ given = << >>
    /\ item = NoItem
    /\ tokens = << >>

Next ==
    \/ \E location \in CallSites : Call(location)
    \/ WalkStep
    \/ WalkReturn
    \/ Keep
    \/ DebugBegin
    \/ \E written \in {0, 1} : DebugBeginErr(written)
    \/ FmtLine
    \/ FmtLineErr
    \/ FmtOk
    \/ FmtLeave

Spec == Init /\ [][Next]_vars

-----------------------------------------------------------------------------
(* SpecFrame: StackFrame::new and Display for StackFrame *)

FrameMessages == Messages \cup {"boom", ""}

FrameLocations ==
    { Loc(file, line, column) :
        file \in {"src/x.rs", "src/main.rs"},
        line \in {1, 10, 42, 65535},
        column \in {1, 5, 23} }

\* user code calls StackFrame::new(location, message)
New(location, message) ==
    /\ given' = <<location, message>>
    /\ made' = << StackFrame_new(location, message) >>
    /\ shown' = ""
    /\ UNCHANGED <<errors, pc, mode, caller, stack, current_error, held, out, idx, item, tokens>>

\* user code formats the frame with "{}"
Show ==
    /\ made # << >>
    /\ shown' = StackFrame_fmt(made[1])
    /\ UNCHANGED <<errors, pc, mode, caller, stack, current_error, held, out, idx, made, given, item, tokens>>

InitFrame ==
    /\ errors = << >>
    /\ pc = "idle"
    /\ mode = "user"
    /\ caller = DebugCallSite
    /\ stack = << >>
    /\ current_error = Self
    /\ held = << >>
    /\ out = ""
    /\ idx = 0
    /\ made = << >>
    /\ shown = ""
    /\ given = << >>
    /\ item = NoItem
    /\ tokens = << >>

NextFrame ==
    \/ \E location \in FrameLocations, message \in FrameMessages : New(location, message)
    \/ Show

SpecFrame == InitFrame /\ [][NextFrame]_vars

-----------------------------------------------------------------------------
(* SpecMacro: #[stack_trace_debug] applied to an item *)

\* the generics of the item, as input.generics.split_for_impl() splits them
GenericsForms ==
    { NoGenerics,
      [impl_generics |-> "<T>", ty_generics |-> "<T>", where_clause |-> ""],
      [impl_generics |-> "<T>", ty_generics |-> "<T>", where_clause |-> " where T: Display"] }

ItemKinds == {"enum", "struct", "union", "fn", "trait"}

Idents == {"MyError", "AppError", "Config", "E"}

Items == [kind : ItemKinds, ident : Idents, generics : GenericsForms]

\* one group of the emitted TokenStream
Token(tok, text, of) == [tok |-> tok, text |-> text, item |-> of]

\* syn::Error::to_compile_error()
to_compile_error(message) == << Token("compile_error", message, NoItem) >>

\* syn's parser of DeriveInput takes a struct, an enum or a union and
\* nothing else
parse_macro_input(input) ==
    IF input.kind \in {"struct", "enum", "union"}
        THEN [ok |-> TRUE, value |-> input, error |-> ""]
        ELSE [ok |-> FALSE, value |-> input,
              error |-> "expected one of: struct, enum, union"]

ImplHeader(trait, name, impl_generics, ty_generics, where_clause) ==
    "impl" \o impl_generics \o " " \o trait \o " for " \o name
        \o ty_generics \o where_clause

generate_virtual_stack_trace_impl(name, impl_generics, ty_generics, where_clause) ==
    << Token("impl",
             ImplHeader("snafu_virtstack::VirtualStackTrace",
                        name, impl_generics, ty_generics, where_clause),
             NoItem),
       Token("impl",
             ImplHeader("std::fmt::Debug",
                        name, impl_generics, ty_generics, where_clause),
             NoItem) >>

\* a plausible slip: the match also lets Data::Struct through
generate_stack_trace_impl_struct(input) ==
    IF input.kind \in {"enum", "struct"}
        THEN [ok |-> TRUE,
              tokens |-> << Token("item", "", input) >>
                  \o generate_virtual_stack_trace_impl(
                         input.ident, input.generics.impl_generics,
                         input.generics.ty_generics, input.generics.where_clause),
              error |-> ""]
        ELSE [ok |-> FALSE, tokens |-> << >>,
              error |-> "stack_trace_debug can only be applied to enums"]

generate_stack_trace_impl(input) ==
    IF input.kind = "enum"
        THEN [ok |-> TRUE,
              tokens |-> << Token("item", "", input) >>
                  \o generate_virtual_stack_trace_impl(
                         input.ident, input.generics.impl_generics,
                         input.generics.ty_generics, input.generics.where_clause),
              error |-> ""]
        ELSE [ok |-> FALSE, tokens |-> << >>,
              error |-> "stack_trace_debug can only be applied to enums"]

\* the attribute's entry point: the compiler expands it on `item`
stack_trace_debug ==
    /\ tokens = << >>
    /\ LET parsed == parse_macro_input(item)
           result == generate_stack_trace_impl(parsed.value)
       IN  tokens' = IF ~parsed.ok THEN to_compile_error(parsed.error)
                     ELSE IF result.ok THEN result.tokens
                     ELSE to_compile_error(result.error)
    /\ UNCHANGED <<errors, pc, mode, caller, stack, current_error, held, out, idx,
                   made, shown, given, item>>

InitMacro ==
    /\ errors = << >>
    /\ pc = "idle"
    /\ mode = "user"
    /\ caller = DebugCallSite
    /\ stack = << >>
    /\ current_error = Self
    /\ held = << >>
    /\ out = ""
    /\ idx = 0
    /\ made = << >>
    /\ shown = ""
    /\ given = << >>
    /\ item \in Items
    /\ tokens = << >>

NextMacro == stack_trace_debug

SpecMacro == InitMacro /\ [][NextMacro]_vars

-----------------------------------------------------------------------------
(* What the claims speak of *)

\* the links of the chain from error e on, at most `fuel` of them
RECURSIVE LinksFrom(_, _)
LinksFrom(e, fuel) ==
    IF e = None \/ fuel = 0 THEN << >>
    ELSE << e >> \o LinksFrom(source(e), fuel - 1)

\* the chain of Self ends in None
Acyclic == Len(LinksFrom(Self, Len(errors) + 1)) <= Len(errors)

\* the links of an acyclic chain, outermost first
ChainOf == LinksFrom(Self, Len(errors))

\* virtual_stack is running or has returned its Vec
Collecting == pc \in {"walk", "done", "fmt", "fmt_done"}

Returned == pc \in {"done", "fmt", "fmt_done"}

\* the message of the synthetic frame the specification asks for at the bound
TruncatedMessage == "...chain truncated"

\* C1: on an acyclic chain of N links virtual_stack returns exactly N frames,
\* frame i carrying the Display text of the i-th link from the outermost
\* error to the root cause; while it walks, the frames are a prefix of that.
C1_OneFramePerLink ==
    (Acyclic /\ Collecting) =>
        /\ Len(stack) <= Len(ChainOf)
        /\ \A k \in 1..Len(stack) : stack[k].message = to_string(ChainOf[k])
        /\ Returned => Len(stack) = Len(ChainOf)

C1_Witness ==
    /\ pc = "done"
    /\ Acyclic
    /\ Len(stack) = NumErrors
    /\ stack[1].message # stack[2].message

\* C2: the sequence is never empty: during the walk and at return frame 0 is
\* there and carries self.to_string(); an error without a source yields
\* exactly that one frame.
C2_NeverEmpty ==
    Collecting =>
        /\ Len(stack) >= 1
        /\ stack[1].message = to_string(Self)
        /\ (Returned /\ source(Self) = None) =>
               stack = << StackFrame_new(caller, to_string(Self)) >>

C2_Witness ==
    /\ pc = "done"
    /\ source(Self) = None
    /\ Len(stack) = 1

\* C3: on a cyclic chain virtual_stack stops, and its sequence never holds
\* more than the fixed maximum frame count (plus the frame that reports the
\* truncation).
C3_CycleBounded ==
    (~Acyclic /\ Collecting) => Len(stack) <= MaxFrameCount + 1

\* C4: a sequence longer than the maximum frame count is the truncated one:
\* the walk is over and the last frame is the synthetic truncation frame; a
\* sequence within the bound has no such frame.
C4_TruncationFrame ==
    Collecting =>
        /\ Len(stack) > MaxFrameCount =>
               /\ pc # "walk"
               /\ Len(stack) = MaxFrameCount + 1
               /\ stack[Len(stack)].message = TruncatedMessage
        /\ Len(stack) <= MaxFrameCount =>
               \A k \in 1..Len(stack) : stack[k].message # TruncatedMessage

\* the first n frame lines of the block
RECURSIVE FrameLines(_)
FrameLines(n) ==
    IF n = 0 THEN ""
    ELSE FrameLines(n - 1)
             \o "  " \o ToString(n - 1) \o ": "
             \o stack[n].message \o " at " \o stack[n].location.file
             \o ":" \o ToString(stack[n].location.line)
             \o ":" \o ToString(stack[n].location.column) \o "\n"

\* C5: the text of Debug::fmt is "Error: " and the head error's Display
\* text, then "Virtual Stack Trace:", then one line per frame in order: two
\* spaces, the zero-based index, ": ", the frame's rendering; every line ends
\* with a line break, there are N + 2 of them and nothing after the last.
C5_DebugBlock ==
    pc \in {"fmt", "fmt_done"} =>
        /\ stack[1].message = to_string(Self)
        /\ out = "Error: " \o stack[1].message \o "\n"
                     \o "Virtual Stack Trace:" \o "\n"
                     \o FrameLines(idx)
        /\ pc = "fmt_done" => (idx = Len(stack) /\ idx = Len(ChainOf))

C5_Witness ==
    /\ pc = "fmt_done"
    /\ out = "Error: outer failed\nVirtual Stack Trace:\n"
                 \o "  0: outer failed at src/error.rs:7:1\n"
                 \o "  1: inner cause at src/error.rs:7:1\n"

\* C6: StackFrame::new stores location and message as given, and Display
\* writes the message, " at ", file, ":", line, ":", column and nothing else;
\* ("src/x.rs", 10, 5) with "boom" gives "boom at src/x.rs:10:5".
C6_FrameRendering ==
    /\ made # << >> =>
           /\ made[1].location = given[1]
           /\ made[1].message = given[2]
    /\ shown # "" =>
           shown = given[2] \o " at " \o given[1].file
                       \o ":" \o ToString(given[1].line)
                       \o ":" \o ToString(given[1].column)
    /\ (shown # "" /\ given = << Loc("src/x.rs", 10, 5), "boom" >>) =>
           shown = "boom at src/x.rs:10:5"

C6_Witness == shown = "boom at src/x.rs:10:5"

\* C7: a second virtual_stack call on the unchanged error returns a sequence
\* as long as the one the first call returned, with the same messages index
\* by index; only the locations may differ.
C7_SameMessagesEachCall ==
    (pc = "done" /\ held # << >>) =>
        /\ Len(stack) = Len(held)
        /\ \A k \in 1..Len(stack) : stack[k].message = held[k].message

C7_Witness ==
    /\ pc = "done"
    /\ held # << >>
    /\ Len(stack) >= 2
    /\ stack[1].location # held[1].location

\* C8: every frame carries the location where the error of its link was
\* propagated.
C8_OwnPropagationSite ==
    (Acyclic /\ Returned) =>
        \A k \in 1..Len(stack) : stack[k].location = errors[ChainOf[k]].site

\* C9 as stated: every item that is not an enum gets the error
\* "stack_trace_debug can only be applied to enums" and no implementation; an
\* enum gets the item unchanged followed by both implementations.
C9_NotAnEnumMessage ==
    tokens # << >> =>
        IF item.kind = "enum"
            THEN /\ Len(tokens) = 3
                 /\ tokens[1] = Token("item", "", item)
                 /\ tokens[2].tok = "impl" /\ tokens[3].tok = "impl"
            ELSE tokens = << Token("compile_error",
                                   "stack_trace_debug can only be applied to enums",
                                   NoItem) >>

\* C9 as amended: a struct or a union gets the error "stack_trace_debug can
\* only be applied to enums"; any other item that is not an enum gets a
\* compile error too (the parse error of DeriveInput); neither gets an
\* implementation. An enum gets the item unchanged, then the
\* VirtualStackTrace implementation, then the Debug implementation.
C9_EnumsOnly ==
    tokens # << >> =>
        /\ item.kind = "enum" =>
               /\ Len(tokens) = 3
               /\ tokens[1] = Token("item", "", item)
               /\ tokens[2] = Token("impl",
                      "impl" \o item.generics.impl_generics
                          \o " snafu_virtstack::VirtualStackTrace for "
                          \o item.ident \o item.generics.ty_generics
                          \o item.generics.where_clause, NoItem)
               /\ tokens[3] = Token("impl",
                      "impl" \o item.generics.impl_generics
                          \o " std::fmt::Debug for "
                          \o item.ident \o item.generics.ty_generics
                          \o item.generics.where_clause, NoItem)
        /\ item.kind \in {"struct", "union"} =>
               tokens = << Token("compile_error",
                                 "stack_trace_debug can only be applied to enums",
                                 NoItem) >>
        /\ item.kind # "enum" =>
               /\ Len(tokens) = 1
               /\ tokens[1].tok = "compile_error"

C9_Witness ==
    /\ tokens # << >>
    /\ item.kind = "struct"
    /\ tokens[1].text = "stack_trace_debug can only be applied to enums"

====
